---- MODULE Spec2Model ----
(***************************************************************************)
(* llm-stream: the streaming pipeline.                                     *)
(*   lib/llm_stream     Client::delta of the anthropic, mistral and ollama *)
(*                      backends: an eventsource transport configured with *)
(*                      a reconnect policy, mapped item by item to text    *)
(*                      fragments;                                         *)
(*   crates/llm_stream  handle_stream: the loop that consumes the fragment *)
(*                      stream, drives the spinner, renders to stdout and  *)
(*                      appends the reply to the cached conversation.      *)
(* Text is a sequence of one-character strings; an Option is a sequence of *)
(* length 0 (None) or 1 (Some).                                            *)
(***************************************************************************)
EXTENDS Integers, Sequences, FiniteSets, TLC

\* ------------------------------------------------------------------------
\* Bounds of the model
\* ------------------------------------------------------------------------
\* events the server generates for one reply
MaxReply == 3
\* comment frames the transport passes on during one run
MaxComments == 1
\* reconnect delays the transport sleeps during one run
MaxAttempts == 8
\* fragments a caller that polls the delta stream directly takes from it
MaxDelivered == 5
\* messages of the conversation merge_args_and_config is called with
MaxConversation == 2

\* ------------------------------------------------------------------------
\* Text: characters, bytes, lines
\* ------------------------------------------------------------------------
\* the one two-byte character of the model's alphabet and its encoding
WideChar == "e_acute"
LeadByte == "xC3"
ContByte == "xA9"
Replacement == "uFFFD"
Whitespace == {" ", "\n"}

RECURSIVE Concat(_)
\* concatenation of a sequence of sequences, in order
Concat(ss) ==
    IF ss = <<>> THEN <<>> ELSE Head(ss) \o Concat(Tail(ss))

RECURSIVE AsBytes(_)
\* str::as_bytes: the UTF-8 encoding of a text
AsBytes(text) ==
    IF text = <<>> THEN <<>>
    ELSE (IF Head(text) = WideChar THEN <<LeadByte, ContByte>> ELSE <<Head(text)>>)
         \o AsBytes(Tail(text))

RECURSIVE FromUtf8Lossy(_)
\* String::from_utf8_lossy: decodes, replacing each invalid byte by U+FFFD
FromUtf8Lossy(bytes) ==
    IF bytes = <<>> THEN <<>>
    ELSE IF Head(bytes) = LeadByte
         THEN IF Len(bytes) >= 2 /\ bytes[2] = ContByte
              THEN <<WideChar>> \o FromUtf8Lossy(Tail(Tail(bytes)))
              ELSE <<Replacement>> \o FromUtf8Lossy(Tail(bytes))
         ELSE IF Head(bytes) = ContByte
              THEN <<Replacement>> \o FromUtf8Lossy(Tail(bytes))
              ELSE <<Head(bytes)>> \o FromUtf8Lossy(Tail(bytes))

RECURSIVE TrimStart(_)
TrimStart(s) ==
    IF s # <<>> /\ Head(s) \in Whitespace THEN TrimStart(Tail(s)) ELSE s

RECURSIVE TrimEnd(_)
TrimEnd(s) ==
    IF s # <<>> /\ s[Len(s)] \in Whitespace
    THEN TrimEnd(SubSeq(s, 1, Len(s) - 1)) ELSE s

\* str::trim
Trim(s) == TrimEnd(TrimStart(s))

RECURSIVE SplitNewline(_)
\* the pieces of s between its newlines (always at least one piece)
SplitNewline(s) ==
    IF \A i \in 1..Len(s) : s[i] # "\n" THEN <<s>>
    ELSE LET i == CHOOSE j \in 1..Len(s) :
                     s[j] = "\n" /\ \A k \in 1..(j - 1) : s[k] # "\n"
         IN  <<SubSeq(s, 1, i - 1)>> \o SplitNewline(SubSeq(s, i + 1, Len(s)))

\* str::lines: the lines of s; a final newline ends the last line and does
\* not start another one, so the empty text has no lines
Lines(s) ==
    LET parts == SplitNewline(s)
    IN  IF parts[Len(parts)] = <<>> THEN SubSeq(parts, 1, Len(parts) - 1)
        ELSE parts

RECURSIVE JoinNewline(_)
\* [&str]::join("\n")
JoinNewline(ls) ==
    IF ls = <<>> THEN <<>>
    ELSE IF Len(ls) = 1 THEN ls[1]
    ELSE ls[1] \o <<"\n">> \o JoinNewline(Tail(ls))

\* Iterator::skip
Skip(s, n) == SubSeq(s, n + 1, Len(s))

Min(a, b) == IF a <= b THEN a ELSE b

\* ------------------------------------------------------------------------
\* Backends: reconnect policy, event payloads, decoders and delta extractors
\* ------------------------------------------------------------------------
Backends == {"anthropic", "mistral", "ollama"}

\* Option<T>
None == <<>>
Some(v) == <<v>>

\* the same options with the first handshake retried
AnthropicReconnectRetryInitial ==
    [reconnect |-> TRUE, retry_initial |-> TRUE, delay |-> 1,
     backoff_factor |-> 2, delay_max |-> 60]

\* lib anthropic.rs: ReconnectOptions::reconnect(true).retry_initial(false)
\*   .delay(1s).backoff_factor(2).delay_max(60s)
AnthropicReconnect ==
    [reconnect |-> TRUE, retry_initial |-> FALSE,
     delay |-> 1, backoff_factor |-> 2, delay_max |-> 60]

\* the same options without reconnection
MistralReconnectOff ==
    [reconnect |-> FALSE, retry_initial |-> FALSE,
     delay |-> 1, backoff_factor |-> 2, delay_max |-> 60]

\* lib mistral.rs: the same options
MistralReconnect ==
    [reconnect |-> TRUE, retry_initial |-> FALSE,
     delay |-> 1, backoff_factor |-> 2, delay_max |-> 60]

\* a slip in one backend's policy: a 30s cap
OllamaReconnectCap30 ==
    [reconnect |-> TRUE, retry_initial |-> FALSE,
     delay |-> 1, backoff_factor |-> 2, delay_max |-> 30]

\* lib ollama.rs: the same options
OllamaReconnect ==
    [reconnect |-> TRUE, retry_initial |-> FALSE,
     delay |-> 1, backoff_factor |-> 2, delay_max |-> 60]

ReconnectOptions(b) ==
    CASE b = "anthropic" -> AnthropicReconnect
      [] b = "mistral" -> MistralReconnect
      [] b = "ollama" -> OllamaReconnect

\* the delay that follows delay d under policy o: multiplied by the backoff
\* factor, capped at delay_max
NextDelay(o, d) == Min(d * o.backoff_factor, o.delay_max)

\* enum MessageEventType, serde snake_case names
MessageEventType ==
    {"error", "message_start", "message_delta", "message_stop", "ping",
     "content_block_start", "content_block_delta", "content_block_stop",
     "comment"}

\* reply texts
Hello == <<"H", "e", "l", "l", "o">>
World == <<" ", "w", "o", "r", "l", "d">>
Hi == <<"H", "i">>
TextA == <<"A">>
TextB == <<"B">>
\* "~" stands for a code fence
FenceLine == <<"~", "\n">>
WideLine == <<WideChar, "\n">>
CodeLine == <<"x", "\n", "~">>

\* Event data of the Anthropic wire format: wf says the data is JSON of an
\* object; type is the "type" member; delta the "delta" member when present
ContentBlockDelta(t) ==
    [wf |-> TRUE, type |-> "content_block_delta", delta |-> Some([text |-> Some(t)])]
MessageStop == [wf |-> TRUE, type |-> "message_stop", delta |-> None]
AnthropicGarbage == [wf |-> FALSE, type |-> "", delta |-> None]
AnthropicPayloads ==
    {ContentBlockDelta(Hello), ContentBlockDelta(World),
     ContentBlockDelta(FenceLine), MessageStop, AnthropicGarbage}

\* Event data of the chat-completion wire format: the "choices" member, each
\* choice with the "content" member of its delta when present
Chunk(t) == [wf |-> TRUE, choices |-> <<[content |-> Some(t)]>>]
ChunkNoChoices == [wf |-> TRUE, choices |-> <<>>]
ChunkNoContent == [wf |-> TRUE, choices |-> <<[content |-> None]>>]
MistralPayloads ==
    {Chunk(TextA), Chunk(TextB), Chunk(WideLine), ChunkNoChoices, ChunkNoContent}

\* Event data of the Ollama wire format
OllamaChunk(t, d) ==
    [wf |-> TRUE, model |-> Some("m"), message |-> Some([content |-> t]), done |-> d]
OllamaDone == [wf |-> TRUE, model |-> Some("m"), message |-> None, done |-> TRUE]
OllamaGarbage == [wf |-> FALSE, model |-> None, message |-> None, done |-> FALSE]
OllamaPayloads ==
    {OllamaChunk(Hi, FALSE), OllamaChunk(CodeLine, FALSE), OllamaDone, OllamaGarbage}

Payloads(b) ==
    CASE b = "anthropic" -> AnthropicPayloads
      [] b = "mistral" -> MistralPayloads
      [] b = "ollama" -> OllamaPayloads

\* Event data an adapter may be handed: for Anthropic every event type (and
\* a type that names no variant) with every shape of the delta member, well
\* formed or not
AnthropicWire ==
    [wf : BOOLEAN,
     type : MessageEventType \cup {"unknown"},
     delta : {None, Some([text |-> None]), Some([text |-> Some(<<>>)]),
              Some([text |-> Some(Hello)])}]

MistralWire ==
    MistralPayloads \cup
    {[wf |-> FALSE, choices |-> <<[content |-> Some(TextA)]>>],
     [wf |-> TRUE, choices |-> <<[content |-> Some(<<>>)]>>],
     [wf |-> TRUE, choices |-> <<[content |-> Some(TextA)], [content |-> Some(TextB)]>>],
     [wf |-> TRUE, choices |-> <<[content |-> Some(TextA)], [content |-> None]>>]}

OllamaWire ==
    [wf : BOOLEAN, model : {None, Some("m")},
     message : {None, Some([content |-> <<>>]), Some([content |-> Hi])},
     done : BOOLEAN]

Wire(b) ==
    CASE b = "anthropic" -> AnthropicWire
      [] b = "mistral" -> MistralWire
      [] b = "ollama" -> OllamaWire

\* serde_json::from_str::<MessageEvent>: Some(event) or None on an error;
\* "type" is required and must name a variant, every other member is optional
DecodeMessageEvent(data) ==
    IF data.wf /\ data.type \in MessageEventType
    THEN Some([type |-> data.type, delta |-> data.delta])
    ELSE None

\* serde_json::from_str::<ChatCompletionChunk> of mistral.rs: every choice
\* needs a delta with a content string
DecodeMistralChunk(data) ==
    IF data.wf /\ \A i \in 1..Len(data.choices) : data.choices[i].content # None
    THEN Some([choices |-> [i \in 1..Len(data.choices) |->
                              [content |-> data.choices[i].content[1]]]])
    ELSE None

\* serde_json::from_str::<ChatCompletionChunk> of ollama.rs: model and done
\* are required, message is optional
DecodeOllamaChunk(data) ==
    IF data.wf /\ data.model # None
    THEN Some([message |-> data.message, done |-> data.done])
    ELSE None

\* transport items (enum SSE)
Connected == [kind |-> "Connected", src |-> 0]
Comment == [kind |-> "Comment", src |-> 0]
Event(i) == [kind |-> "Event", src |-> i]

\* the text of the delta member taken whatever the event's type
AnthropicDeltaAnyType(kind, data) ==
    CASE kind = "Connected" -> <<>>
      [] kind = "Comment" -> <<>>
      [] kind = "Event" ->
           LET r == DecodeMessageEvent(data)
           IN  IF r = None THEN <<>>
               ELSE IF r[1].delta # None
                    THEN IF r[1].delta[1].text # None
                         THEN r[1].delta[1].text[1] ELSE <<>>
                    ELSE <<>>

\* a decode failure wrongly surfaced as text
AnthropicDeltaLeak(kind, data) ==
    CASE kind = "Connected" -> <<>>
      [] kind = "Comment" -> <<>>
      [] kind = "Event" ->
           LET r == DecodeMessageEvent(data)
           IN  IF r = None THEN <<"!">>
               ELSE IF r[1].type = "content_block_delta"
                    THEN IF r[1].delta # None
                         THEN IF r[1].delta[1].text # None
                              THEN r[1].delta[1].text[1] ELSE <<>>
                         ELSE <<>>
                    ELSE <<>>

\* the stop event wrongly given a text of its own
AnthropicDeltaStopText(kind, data) ==
    CASE kind = "Connected" -> <<>>
      [] kind = "Comment" -> <<>>
      [] kind = "Event" ->
           LET r == DecodeMessageEvent(data)
           IN  IF r = None THEN <<>>
               ELSE IF r[1].type = "content_block_delta"
                    THEN IF r[1].delta # None
                         THEN IF r[1].delta[1].text # None
                              THEN r[1].delta[1].text[1] ELSE <<>>
                         ELSE <<>>
                    ELSE IF r[1].type = "message_stop" THEN <<"\n">> ELSE <<>>

\* anthropic.rs Client::delta, the map_ok closure: item -> String
AnthropicDelta(kind, data) ==
    CASE kind = "Connected" -> <<>>
      [] kind = "Comment" -> <<>>
      [] kind = "Event" ->
           LET r == DecodeMessageEvent(data)
           IN  IF r = None THEN <<>>
               ELSE IF r[1].type = "content_block_delta"
                    THEN IF r[1].delta # None
                         THEN IF r[1].delta[1].text # None
                              THEN r[1].delta[1].text[1] ELSE <<>>
                         ELSE <<>>
                    ELSE <<>>

\* mistral.rs Client::delta, the map_ok closure
MistralDelta(kind, data) ==
    CASE kind = "Connected" -> <<>>
      [] kind = "Comment" -> <<>>
      [] kind = "Event" ->
           LET r == DecodeMistralChunk(data)
           IN  IF r = None THEN <<>>
               ELSE IF r[1].choices = <<>> THEN <<>>
                    ELSE r[1].choices[1].content

\* the text of a chunk dropped when the chunk is not the final one
OllamaDeltaDrop(kind, data) ==
    CASE kind = "Connected" -> <<>>
      [] kind = "Comment" -> <<>>
      [] kind = "Event" ->
           LET r == DecodeOllamaChunk(data)
           IN  IF r = None THEN <<>>
               ELSE IF r[1].message = None \/ ~r[1].done THEN <<>>
                    ELSE r[1].message[1].content

\* ollama.rs Client::delta, the map_ok closure
OllamaDelta(kind, data) ==
    CASE kind = "Connected" -> <<>>
      [] kind = "Comment" -> <<>>
      [] kind = "Event" ->
           LET r == DecodeOllamaChunk(data)
           IN  IF r = None THEN <<>>
               ELSE IF r[1].message = None THEN <<>>
                    ELSE r[1].message[1].content

Delta(b, kind, data) ==
    CASE b = "anthropic" -> AnthropicDelta(kind, data)
      [] b = "mistral" -> MistralDelta(kind, data)
      [] b = "ollama" -> OllamaDelta(kind, data)

\* whether the decoder of backend b accepts the event data
Decodes(b, data) ==
    CASE b = "anthropic" -> DecodeMessageEvent(data) # None
      [] b = "mistral" -> DecodeMistralChunk(data) # None
      [] b = "ollama" -> DecodeOllamaChunk(data) # None

\* ------------------------------------------------------------------------
\* The highlighter (crate::printer::CustomPrinter)
\* ------------------------------------------------------------------------
StyleCode == "ESC[code]"
StyleText == "ESC[text]"

\* the number of code fences in a text
Fences(t) == Cardinality({i \in 1..Len(t) : t[i] = "~"})

\* CustomPrinter::new(language, theme).input_from_bytes(bytes).print():
\* the whole buffer is decoded and every line is rendered in the style the
\* whole buffer decides: text inside an unterminated code fence is code.
\* A later byte can therefore change the rendering of an earlier line.
Highlight(bytes) ==
    LET t == FromUtf8Lossy(bytes)
        style == IF Fences(t) % 2 = 1 THEN StyleCode ELSE StyleText
        parts == SplitNewline(t)
    IN  JoinNewline([i \in 1..Len(parts) |->
                       IF i = Len(parts) /\ parts[i] = <<>> THEN <<>>
                       ELSE <<style>> \o parts[i]])

\* ------------------------------------------------------------------------
\* State
\* ------------------------------------------------------------------------
VARIABLES
    backend,        \* the backend whose Client::delta built the stream
    reply,          \* the event data the server has generated for the request
    complete,       \* the server has ended its response after reply
    tstate,         \* transport: start, connected, waiting, closed
    pos,            \* events of reply received on the current connection
    delay,          \* the delay before the next reconnect attempt (seconds)
    slept,          \* the delays slept so far, in order
    nComments,      \* comment frames passed on so far
    delivered,      \* the Ok(String) items the delta stream has yielded
    pc,             \* handle_stream: loop, returned; caller: a direct consumer
    result,         \* handle_stream's return value: pending, Ok, Err
    error,          \* the error handle_stream returns ("" when none)
    polled,         \* the last result the stream yielded: its tag and error
    is_terminal,    \* atty::is(Stdout)
    quiet,          \* args.quiet: Option<bool>
    no_cache,       \* args.no_cache
    sp,             \* the Option<Spinner>: "Some" or "None"
    spStarted,      \* a spinner was created
    spStops,        \* calls of Spinner::stop
    accumulated_content_bytes,
    previous_output,
    stdout,         \* the bytes and cursor commands written to stdout
    wroteText,      \* a print! of reply text has written at least one byte
    highlightRuns,  \* runs of the highlighter
    conversation,   \* args.conversation
    cacheWritten,   \* the cache file was written
    args,           \* merge_args_and_config: the Args it is called with
    config,         \* merge_args_and_config: the Config it is called with
    merged,         \* merge_args_and_config: the Result<Args> it returns
    piped,          \* main: the process's standard input
    cacheDir,       \* main: the cache directory, its files in path order
    parsed,         \* main: the Result parse_args returns
    cached,         \* main: the Result merge_args_and_cache returns
    started,        \* main: the backend run functions called so far
    mainResult,     \* main: how it ended (pending while it has not)
    value_a,        \* merge: the Value behind its &mut a
    value_b,        \* merge: the Value b it is called with
    value_in        \* merge: the Value behind a when it was called

transportVars == <<reply, complete, tstate, pos, delay, slept, nComments>>
streamVars == <<sp, spStops, accumulated_content_bytes, previous_output,
                stdout, wroteText, highlightRuns>>
vars == <<backend, reply, complete, tstate, pos, delay, slept, nComments,
          delivered, pc, result, error, polled, is_terminal, quiet, no_cache,
          sp, spStarted,
          spStops, accumulated_content_bytes, previous_output, stdout,
          wroteText, highlightRuns, conversation, cacheWritten,
          args, config, merged, piped, cacheDir, parsed, cached, started,
          mainResult, value_a, value_b, value_in>>
mergeVars == <<args, config, merged>>
mainVars == <<piped, cacheDir, parsed, cached, started, mainResult>>
jsonVars == <<value_a, value_b, value_in>>

\* ------------------------------------------------------------------------
\* The transport: client.stream() polled once
\* ------------------------------------------------------------------------
NoData == [wf |-> FALSE]

\* The outcomes of one poll of the stream Client::delta builds: the item,
\* error or end it yields together with the transport state it leaves.
\* The stream is the eventsource client for a POST request with a fixed body
\* and the backend's ReconnectOptions: a failed first handshake is an error
\* and, retry_initial being false, the end of the stream; a drop or the end
\* of the response is an error, after which (reconnect being true) the next
\* poll sleeps the current delay and sends the same request again. The
\* response to a request starts with the first event of the reply.
TransportPoll ==
    LET o == ReconnectOptions(backend)
        base == [tag |-> "End", item |-> Connected, err |-> "",
                 tstate |-> tstate, pos |-> pos, reply |-> reply,
                 complete |-> complete, delay |-> delay, slept |-> slept,
                 nComments |-> nComments]
        afterDrop == IF o.reconnect THEN "waiting" ELSE "closed"
    IN  CASE tstate = "start" ->
               \* the handshake succeeds, or fails
               { [base EXCEPT !.tag = "Item", !.item = Connected,
                              !.tstate = "connected", !.pos = 0],
                 [base EXCEPT !.tag = "Err", !.err = "Connect",
                              !.tstate = IF o.retry_initial THEN "waiting"
                                         ELSE "closed"] }
          [] tstate = "connected" ->
               \* an event the server generated before, sent again on this
               \* connection
               { [base EXCEPT !.tag = "Item", !.item = Event(pos + 1),
                              !.pos = pos + 1] :
                 x \in IF pos < Len(reply) THEN {0} ELSE {} }
               \cup
               \* an event the server generates now
               { [base EXCEPT !.tag = "Item", !.item = Event(pos + 1),
                              !.pos = pos + 1, !.reply = Append(reply, d)] :
                 d \in IF pos = Len(reply) /\ ~complete /\ Len(reply) < MaxReply
                       THEN Payloads(backend) ELSE {} }
               \cup
               \* a comment frame
               { [base EXCEPT !.tag = "Item", !.item = Comment,
                              !.nComments = nComments + 1] :
                 x \in IF nComments < MaxComments THEN {0} ELSE {} }
               \cup
               \* the server ends the response: Eof, or the end of the stream
               { [base EXCEPT !.tag = "Err", !.err = "Eof",
                              !.complete = TRUE, !.tstate = afterDrop] :
                 x \in IF pos = Len(reply) THEN {0} ELSE {} }
               \cup
               { [base EXCEPT !.tag = "End", !.complete = TRUE,
                              !.tstate = "closed"] :
                 x \in IF pos = Len(reply) THEN {0} ELSE {} }
               \cup
               \* the connection drops
               { [base EXCEPT !.tag = "Err", !.err = "UnexpectedEof",
                              !.tstate = afterDrop] }
          [] tstate = "waiting" ->
               \* the delay is slept, the same POST request is sent again and
               \* the handshake succeeds or fails
               IF Len(slept) < MaxAttempts
               THEN LET w == [base EXCEPT !.slept = Append(slept, delay),
                                          !.delay = NextDelay(o, delay)]
                    IN  { [w EXCEPT !.tag = "Item", !.item = Connected,
                                    !.tstate = "connected", !.pos = 0],
                          [w EXCEPT !.tag = "Err", !.err = "HttpStream"] }
               ELSE {}
          [] tstate = "closed" -> { base }

TransportApply(o) ==
    /\ tstate' = o.tstate
    /\ pos' = o.pos
    /\ reply' = o.reply
    /\ complete' = o.complete
    /\ delay' = o.delay
    /\ slept' = o.slept
    /\ nComments' = o.nComments

\* the String the delta stream yields for a transport item (map_ok)
DeltaOf(o) ==
    Delta(backend, o.item.kind,
          IF o.item.kind = "Event" THEN o.reply[o.item.src] ELSE NoData)

Fragment(o) == [text |-> DeltaOf(o), kind |-> o.item.kind, src |-> o.item.src]

\* what the consumer's match sees of a poll: Ok(Some), Ok(None) or Err(e)
Polled(o) == [tag |-> o.tag, err |-> o.err]

\* ------------------------------------------------------------------------
\* handle_stream
\* ------------------------------------------------------------------------
\* the cursor left where it is
CursorStays == <<>>

\* MoveToColumn(0) as written to stdout
CursorColumn0 == <<"CSI[1G">>
\* print!("                      "): 22 blanks over the spinner
SpinnerBlanks == [i \in 1..22 |-> " "]

\* prelude.rs:28 the spinner is created when quiet is unset, or when it is
\* false and stdout is a terminal
SpinnerStarts(q, term) == q = None \/ (q = Some(FALSE) /\ term)

\* the spinner left running
StopsSpinnerNever(term, s) == FALSE

\* prelude.rs:45 the spinner is stopped and cleared on a fragment
StopsSpinner(term, s) == term /\ s = "Some"

\* prelude.rs:47-51 what the clearing writes
ClearSpinner == CursorColumn0 \o SpinnerBlanks \o CursorColumn0

\* a raw write that also moves the cursor
PassThroughCursor(out, text) == out \o CursorColumn0 \o AsBytes(text)

\* prelude.rs:56 print!("{}", text) on a stdout that is not a terminal
PassThrough(out, text) == out \o AsBytes(text)

\* the buffer patched with the fragment's characters only when they are one
\* byte each
ExtendAccumulatedNarrow(acc, text) ==
    acc \o SelectSeq(AsBytes(text), LAMBDA b : b \notin {LeadByte, ContByte})

\* prelude.rs:61 accumulated_content_bytes.extend_from_slice(text.as_bytes())
ExtendAccumulated(acc, text) == acc \o AsBytes(text)

\* every line of the previous rendering skipped, its last one too
UnprintedLinesSkipAll(output, previous) ==
    JoinNewline(Skip(Lines(output), Len(Lines(previous))))

\* prelude.rs:67-75 the lines of output that follow the settled lines of the
\* previous output, joined by newlines
UnprintedLines(output, previous) ==
    JoinNewline(Skip(Lines(output),
                     IF Len(Lines(previous)) = 0 THEN 0
                     ELSE Len(Lines(previous)) - 1))

\* every error is taken for the end of the stream
IsCleanEofAlways(err) == TRUE

\* no error is taken for the end of the stream
IsCleanEofNever(err) == FALSE

\* prelude.rs:85 the error that ends the loop as the end of the stream does
IsCleanEof(err) == err = "Eof"

\* the stream is polled again after its end
AfterBreakPollsAgain == "loop"

\* prelude.rs:84, 87 break: the loop is left for good, handle_stream goes on
\* to the step after it and returns
AfterBreak == "returned"

\* prelude.rs:102-132 the step after the loop: the assistant message is
\* appended and the cache file written, unless no_cache
CacheStep ==
    IF ~no_cache
    THEN /\ conversation' =
              Append(conversation,
                     [role |-> "Assistant",
                      content |-> Trim(FromUtf8Lossy(accumulated_content_bytes))])
         /\ cacheWritten' = TRUE
    ELSE UNCHANGED <<conversation, cacheWritten>>

\* prelude.rs:44-83 the arm Ok(Some(text))
RecvText ==
    /\ pc = "loop"
    /\ \E o \in TransportPoll :
         /\ o.tag = "Item"
         /\ TransportApply(o)
         /\ polled' = Polled(o)
         /\ delivered' = Append(delivered, Fragment(o))
         /\ LET text == DeltaOf(o)
                stop == StopsSpinner(is_terminal, sp)
                out1 == IF stop THEN stdout \o ClearSpinner ELSE stdout
            IN  /\ sp' = IF stop THEN "None" ELSE sp
                /\ spStops' = IF stop THEN spStops + 1 ELSE spStops
                /\ IF ~is_terminal
                   THEN /\ stdout' = PassThrough(out1, text)
                        /\ wroteText' = (wroteText \/ text # <<>>)
                        /\ UNCHANGED <<accumulated_content_bytes,
                                       previous_output, highlightRuns>>
                   ELSE LET acc == ExtendAccumulated(accumulated_content_bytes, text)
                            output == Highlight(acc)
                            unprinted == UnprintedLines(output, previous_output)
                        IN  /\ accumulated_content_bytes' = acc
                            /\ highlightRuns' = highlightRuns + 1
                            /\ stdout' = out1 \o CursorColumn0 \o AsBytes(unprinted)
                            /\ wroteText' = (wroteText \/ unprinted # <<>>)
                            /\ previous_output' = output
    /\ UNCHANGED mergeVars
    /\ UNCHANGED mainVars
    /\ UNCHANGED jsonVars
    /\ UNCHANGED <<backend, pc, result, error, is_terminal, quiet, no_cache,
                   spStarted, conversation, cacheWritten>>

\* prelude.rs:44-65 the arm Ok(Some(text)) on a terminal when
\* CustomPrinter::new or print returns an error: the spinner has been
\* stopped and cleared and the buffer extended when the ? operator returns
\* the error; nothing of the fragment is printed
RecvTextRenderErr ==
    /\ pc = "loop"
    /\ is_terminal
    /\ \E o \in TransportPoll :
         /\ o.tag = "Item"
         /\ TransportApply(o)
         /\ polled' = Polled(o)
         /\ delivered' = Append(delivered, Fragment(o))
         /\ LET stop == StopsSpinner(is_terminal, sp)
            IN  /\ sp' = IF stop THEN "None" ELSE sp
                /\ spStops' = IF stop THEN spStops + 1 ELSE spStops
                /\ stdout' = IF stop THEN stdout \o ClearSpinner ELSE stdout
                /\ accumulated_content_bytes' =
                      ExtendAccumulated(accumulated_content_bytes, DeltaOf(o))
    /\ pc' = "returned"
    /\ result' = "Err"
    /\ error' = "Render"
    /\ UNCHANGED mergeVars
    /\ UNCHANGED mainVars
    /\ UNCHANGED jsonVars
    /\ UNCHANGED <<backend, is_terminal, quiet, no_cache, spStarted,
                   previous_output, wroteText, highlightRuns, conversation,
                   cacheWritten>>

\* prelude.rs:84 the arm Ok(None), then the step after the loop
RecvNone ==
    /\ pc = "loop"
    /\ \E o \in TransportPoll :
         /\ o.tag = "End"
         /\ TransportApply(o)
         /\ polled' = Polled(o)
    /\ CacheStep
    /\ pc' = AfterBreak
    /\ result' = "Ok"
    /\ UNCHANGED mergeVars
    /\ UNCHANGED mainVars
    /\ UNCHANGED jsonVars
    /\ UNCHANGED <<backend, delivered, error, is_terminal, quiet, no_cache,
                   spStarted>>
    /\ UNCHANGED streamVars

\* prelude.rs:85-87 the arm Err(EventsourceClient(Eof)), then the step after
\* the loop
RecvEof ==
    /\ pc = "loop"
    /\ \E o \in TransportPoll :
         /\ o.tag = "Err"
         /\ IsCleanEof(o.err)
         /\ TransportApply(o)
         /\ polled' = Polled(o)
    /\ CacheStep
    /\ pc' = AfterBreak
    /\ result' = "Ok"
    /\ UNCHANGED mergeVars
    /\ UNCHANGED mainVars
    /\ UNCHANGED jsonVars
    /\ UNCHANGED <<backend, delivered, error, is_terminal, quiet, no_cache,
                   spStarted>>
    /\ UNCHANGED streamVars

\* prelude.rs:88-98 the arm Err(e)
RecvErr ==
    /\ pc = "loop"
    /\ \E o \in TransportPoll :
         /\ o.tag = "Err"
         /\ ~IsCleanEof(o.err)
         /\ TransportApply(o)
         /\ polled' = Polled(o)
         /\ error' = o.err
    /\ LET stop == StopsSpinner(is_terminal, sp)
       IN  /\ sp' = IF stop THEN "None" ELSE sp
           /\ spStops' = IF stop THEN spStops + 1 ELSE spStops
           /\ stdout' = IF stop THEN stdout \o ClearSpinner ELSE stdout
    /\ pc' = "returned"
    /\ result' = "Err"
    /\ UNCHANGED mergeVars
    /\ UNCHANGED mainVars
    /\ UNCHANGED jsonVars
    /\ UNCHANGED <<backend, delivered, is_terminal, quiet, no_cache,
                   spStarted, accumulated_content_bytes, previous_output,
                   wroteText, highlightRuns, conversation, cacheWritten>>

\* ------------------------------------------------------------------------
\* A caller that polls the delta stream directly (the library's interface)
\* ------------------------------------------------------------------------
CallerItem ==
    /\ pc = "caller"
    /\ Len(delivered) < MaxDelivered
    /\ \E o \in TransportPoll :
         /\ o.tag = "Item"
         /\ TransportApply(o)
         /\ polled' = Polled(o)
         /\ delivered' = Append(delivered, Fragment(o))
    /\ UNCHANGED mergeVars
    /\ UNCHANGED mainVars
    /\ UNCHANGED jsonVars
    /\ UNCHANGED <<backend, pc, result, error, is_terminal, quiet, no_cache,
                   spStarted, conversation, cacheWritten>>
    /\ UNCHANGED streamVars

CallerErr ==
    /\ pc = "caller"
    /\ \E o \in TransportPoll :
         /\ o.tag = "Err"
         /\ TransportApply(o)
         /\ polled' = Polled(o)
    /\ UNCHANGED mergeVars
    /\ UNCHANGED mainVars
    /\ UNCHANGED jsonVars
    /\ UNCHANGED <<backend, delivered, pc, result, error, is_terminal, quiet,
                   no_cache, spStarted, conversation, cacheWritten>>
    /\ UNCHANGED streamVars

CallerEnd ==
    /\ pc = "caller"
    /\ tstate # "closed"
    /\ \E o \in TransportPoll :
         /\ o.tag = "End"
         /\ TransportApply(o)
         /\ polled' = Polled(o)
    /\ UNCHANGED mergeVars
    /\ UNCHANGED mainVars
    /\ UNCHANGED jsonVars
    /\ UNCHANGED <<backend, delivered, pc, result, error, is_terminal, quiet,
                   no_cache, spStarted, conversation, cacheWritten>>
    /\ UNCHANGED streamVars

\* ------------------------------------------------------------------------
\* merge_args_and_config
\* ------------------------------------------------------------------------
\* the Option fields of Args that merge_args_and_config reads or fills
OptFields ==
    {"api", "model", "max_tokens", "min_tokens", "api_env", "api_version",
     "api_key", "api_base_url", "quiet", "language", "theme", "temperature",
     "top_p", "top_k"}

\* the Config field an Args field falls back to; min_tokens has none
ConfigField ==
    [f \in OptFields \ {"min_tokens"} |->
        CASE f = "api_env" -> "env"
          [] f = "api_version" -> "version"
          [] f = "api_key" -> "key"
          [] f = "api_base_url" -> "base_url"
          [] OTHER -> f]

ConfigFields ==
    {"api", "model", "max_tokens", "min_tokens", "env", "version", "key",
     "base_url", "quiet", "language", "theme", "temperature", "top_p", "top_k"}

\* ConversationMessage
Message(role, content) == [role |-> role, content |-> content]
\* ConversationMessage::default()
DefaultMessage == Message("User", <<>>)

\* serde_json::Value, objects one level deep: t is null, str or obj; s the
\* text of a string; o the members of an object, absent ones included
JsonKeys == {"prompt", "stdin", "suffix", "language", "name"}
Absent == [t |-> "absent", s |-> <<>>]
JLeafNull == [t |-> "null", s |-> <<>>]
JLeafStr(text) == [t |-> "str", s |-> text]
NoMembers == [k \in JsonKeys |-> Absent]
JNull == [t |-> "null", s |-> <<>>, o |-> NoMembers]
JStr(text) == [t |-> "str", s |-> text, o |-> NoMembers]
JObj(members) == [t |-> "obj", s |-> <<>>, o |-> members]

\* prelude.rs:137-154 merge(a, b) where the members of a and of b are not
\* objects or are objects whose members are not: two objects are merged
\* member by member, a null member of b removing the member of a; an a that
\* is an object is left alone by a b that is not; any other a is replaced
\* by b
MergeInner(a, b) ==
    IF a.t = "obj"
    THEN IF b.t = "obj"
         THEN JObj([k \in JsonKeys |->
                      IF b.o[k].t = "absent" THEN a.o[k]
                      ELSE IF b.o[k].t = "null" THEN Absent
                      ELSE b.o[k]])
         ELSE a
    ELSE b

\* an a that is an object replaced by a b that is not
MergeReplacesObject(a, b) ==
    IF a.t = "obj" /\ b.t = "obj"
    THEN JObj([k \in JsonKeys |->
                 IF b.o[k].t = "absent" THEN a.o[k]
                 ELSE IF b.o[k].t = "null" THEN Absent
                 ELSE MergeInner(IF a.o[k].t = "absent" THEN JLeafNull
                                 ELSE a.o[k],
                                 b.o[k])])
    ELSE b

\* prelude.rs:137-154 merge(a, b), its recursion two objects deep: a member
\* of b that is not null is merged into the member of a, which is null
\* when a has none (a.entry(k).or_insert(Value::Null))
Merge(a, b) ==
    IF a.t = "obj"
    THEN IF b.t = "obj"
         THEN JObj([k \in JsonKeys |->
                      IF b.o[k].t = "absent" THEN a.o[k]
                      ELSE IF b.o[k].t = "null" THEN Absent
                      ELSE MergeInner(IF a.o[k].t = "absent" THEN JLeafNull
                                      ELSE a.o[k],
                                      b.o[k])])
         ELSE a
    ELSE b

\* merge is not running
InitJsonIdle ==
    /\ value_a = JNull
    /\ value_b = JNull
    /\ value_in = JNull

\* the variables a template text may name
VarKey ==
    [tok \in {"{{prompt}}", "{{stdin}}", "{{name}}"} |->
        CASE tok = "{{prompt}}" -> "prompt"
          [] tok = "{{stdin}}" -> "stdin"
          [] tok = "{{name}}" -> "name"]

IsVar(tok) == tok \in DOMAIN VarKey

\* tera render of a template text (characters and variables) in a context:
\* an error (None) when a variable is not in the context, else the text with
\* every variable replaced by its value, null by nothing
Render(text, context) ==
    IF \E i \in 1..Len(text) :
          IsVar(text[i]) /\ context.o[VarKey[text[i]]].t = "absent"
    THEN None
    ELSE Some(Concat([i \in 1..Len(text) |->
                        IF IsVar(text[i]) THEN context.o[VarKey[text[i]]].s
                        ELSE <<text[i]>>]))

\* Option::unwrap_or_default for a String or a Vec
UnwrapOrDefault(opt) == IF opt = None THEN <<>> ELSE opt[1]

\* prelude.rs:446-451 the json! value the context starts from
ContextValue(a) ==
    JObj([k \in JsonKeys |->
            CASE k = "prompt" -> JLeafStr(UnwrapOrDefault(a.prompt))
              [] k = "stdin" -> JLeafStr(UnwrapOrDefault(a.stdin))
              [] k = "suffix" -> JLeafStr(UnwrapOrDefault(a.suffix))
              [] k = "language" ->
                   IF a.opts["language"] = None THEN JLeafNull
                   ELSE JLeafStr(<<a.opts["language"][1]>>)
              [] OTHER -> Absent])

\* prelude.rs:432-444 serde_json::json!("{}") is the string "{}"
EmptyVars == JStr(<<"{", "}">>)

VarsGiven(v) == ~(v = None \/ v[1].t = "null")

RECURSIVE TemplateConversation(_, _, _)
\* prelude.rs:478-500 the messages of the template's conversation added to
\* the conversation: a System message goes to the front of a conversation
\* that does not start with one and is skipped when it does; every other
\* message, and any message while the conversation is empty, is appended.
\* None when a content fails to render.
TemplateConversation(conv, msgs, context) ==
    IF msgs = <<>> THEN Some(conv)
    ELSE LET m == Head(msgs)
             r == Render(m.content, context)
         IN  IF m.role = "System" /\ Len(conv) > 0
             THEN IF conv[1].role # "System"
                  THEN IF r = None THEN None
                       ELSE TemplateConversation(
                               <<Message("System", r[1])>> \o conv,
                               Tail(msgs), context)
                  ELSE TemplateConversation(conv, Tail(msgs), context)
             ELSE IF r = None THEN None
                  ELSE TemplateConversation(
                          Append(conv, Message(m.role, r[1])),
                          Tail(msgs), context)

\* Result<Args>
Ok(a) == [ok |-> TRUE, err |-> "", args |-> a]
Err(e, a) == [ok |-> FALSE, err |-> e, args |-> a]

\* prelude.rs:422-512 the template selected by args, or stdin joined to the
\* prompt when there is none
TemplateStep(a, c) ==
    IF a.template # None
    THEN LET found == SelectSeq(UnwrapOrDefault(c.templates),
                                LAMBDA t : t.name = a.template[1])
         IN  IF found = <<>> THEN Err("TemplateNotFound", a)
             ELSE
             LET t == found[1]
                 default_vars ==
                     IF ~VarsGiven(t.default_vars) THEN EmptyVars
                     ELSE t.default_vars[1]
                 arg_vars ==
                     IF ~VarsGiven(a.vars) THEN EmptyVars ELSE a.vars[1]
                 context ==
                     Merge(ContextValue(a), Merge(default_vars, arg_vars))
                 rendersSystem == a.system = None /\ t.system # None
                 system == IF rendersSystem THEN Render(t.system[1], context)
                           ELSE a.system
                 rendersPrompt == t.template # None
                 prompt == IF rendersPrompt THEN Render(t.template[1], context)
                           ELSE a.prompt
                 conv == IF t.conversation = None THEN Some(a.conversation)
                         ELSE TemplateConversation(a.conversation,
                                                   t.conversation[1], context)
             IN  IF \/ (rendersSystem /\ system = None)
                    \/ (rendersPrompt /\ prompt = None)
                    \/ conv = None
                 THEN Err("Tera", a)
                 ELSE Ok([a EXCEPT
                            !.vars = IF VarsGiven(a.vars) THEN None ELSE a.vars,
                            !.system = system,
                            !.prompt = prompt,
                            !.conversation = conv[1]])
    ELSE IF a.stdin # None
         THEN Ok([a EXCEPT !.prompt =
                     Some(Trim(a.stdin[1] \o <<"\n">>
                               \o UnwrapOrDefault(a.prompt)))])
         ELSE Ok(a)

\* the configuration's value taken whenever it has one
FallbackConfigWins(arg, conf) == IF conf # None THEN conf ELSE arg

\* prelude.rs:514-563 if args.x.is_none() { args.x = config.x }
Fallback(arg, conf) == IF arg = None THEN conf ELSE arg

\* prelude.rs:523-533 a System message with the configuration's system
\* prompt (or the empty String) is put in front of a conversation that does
\* not start with one
EnsureSystem(conv, system) ==
    IF Len(conv) = 0 \/ conv[1].role # "System"
    THEN <<Message("System", UnwrapOrDefault(system))>> \o conv
    ELSE conv

\* the system argument put in front as a new message
SystemArgInsert(conv, system) ==
    IF system # None
    THEN <<Message("System", system[1])>> \o conv
    ELSE conv

\* the system argument giving way to a leading System message
SystemArgKeepsLeading(conv, system) ==
    IF system # None
    THEN IF Len(conv) > 1 /\ conv[1].role = "System"
         THEN conv
         ELSE <<Message("System", system[1])>> \o conv
    ELSE conv

\* prelude.rs:570-584 the system argument replaces the content of a leading
\* System message, or is put in front as a new message
SystemArg(conv, system) ==
    IF system # None
    THEN IF Len(conv) > 1 /\ conv[1].role = "System"
         THEN [conv EXCEPT ![1] = Message("System", system[1])]
         ELSE <<Message("System", system[1])>> \o conv
    ELSE conv

\* prelude.rs:514-584 the fallbacks to the configuration and the conversation
ConfigStep(a, c) ==
    LET conv1 == EnsureSystem(a.conversation, c.system)
        conv2 == Append(conv1, Message("User", UnwrapOrDefault(a.prompt)))
    IN  [a EXCEPT
           !.opts = [f \in OptFields |->
                       IF f \in DOMAIN ConfigField
                       THEN Fallback(a.opts[f], c.opts[ConfigField[f]])
                       ELSE a.opts[f]],
           !.conversation = SystemArg(conv2, a.system)]

\* prelude.rs:421-587
MergeArgsAndConfig(a, c) ==
    LET r == TemplateStep(a, c)
    IN  IF r.ok THEN Ok(ConfigStep(r.args, c)) ELSE r

\* Args::default() and Config::default()
DefaultArgs ==
    [opts |-> [f \in OptFields |-> None], system |-> None, template |-> None,
     vars |-> None, prompt |-> None, stdin |-> None, suffix |-> None,
     conversation |-> <<>>, preset |-> None, from |-> None,
     from_last |-> FALSE, show |-> FALSE, dry_run |-> FALSE]
DefaultConfig ==
    [opts |-> [f \in ConfigFields |-> None], system |-> None,
     templates |-> None, presets |-> None]
NotMerged == Err("", DefaultArgs)

\* main before it has read its standard input and its cache directory
StdinTerminal == [tty |-> TRUE, ok |-> TRUE, text |-> <<>>]
InitMainIdle ==
    /\ piped = StdinTerminal
    /\ cacheDir = [exists |-> TRUE, files |-> <<>>]
    /\ parsed = NotMerged
    /\ cached = NotMerged
    /\ started = <<>>
    /\ mainResult = "pending"

\* ------------------------------------------------------------------------
\* parse_args and merge_args_and_cache
\* ------------------------------------------------------------------------
\* the Preset field an Args field falls back to (api apart: it is not an
\* Option in Preset)
PresetField ==
    [f \in {"top_p", "top_k", "temperature", "max_tokens", "api_version",
            "api_env", "api_key", "api_base_url", "model"} |->
        CASE f = "api_env" -> "env"
          [] f = "api_version" -> "version"
          [] f = "api_key" -> "key"
          [] f = "api_base_url" -> "base_url"
          [] OTHER -> f]

\* prelude.rs:276-317 the preset's values for the options args leaves unset,
\* and its system prompt in front of a conversation that has none
ApplyPreset(a, p) ==
    [a EXCEPT
       !.opts = [f \in OptFields |->
                   IF f = "api" THEN Fallback(a.opts[f], Some(p.api))
                   ELSE IF f \in DOMAIN PresetField
                        THEN Fallback(a.opts[f], p.opts[PresetField[f]])
                        ELSE a.opts[f]],
       !.conversation = EnsureSystem(a.conversation, p.system)]

\* the input taken as it is
ReadStdinRaw(in) == IF in.tty THEN <<>> ELSE in.text

\* prelude.rs:251-261 "" for a terminal, else the lines of the input joined
\* by newlines and trimmed
ReadStdin(in) ==
    IF in.tty THEN <<>> ELSE Trim(JoinNewline(Lines(in.text)))

\* prelude.rs:248-323 parse_args: the Args of the pair it returns
ParseArgs(a, c, in) ==
    IF ~in.tty /\ ~in.ok THEN Err("Io", a)
    ELSE LET read == ReadStdin(in)
             a1 == IF a.prompt = None
                   THEN [a EXCEPT !.prompt = Some(Trim(read)), !.stdin = None]
                   ELSE [a EXCEPT !.stdin = Some(read)]
             found == IF a.preset = None THEN <<>>
                      ELSE SelectSeq(UnwrapOrDefault(c.presets),
                                     LAMBDA p : p.name = a.preset[1])
         IN  Ok(IF found # <<>> THEN ApplyPreset(a1, found[1]) ELSE a1)

\* the options merge_args_and_cache takes from the cache file
CacheFields ==
    {"api", "model", "api_version", "api_env", "api_key", "temperature",
     "max_tokens", "quiet", "language", "theme", "top_p", "top_k"}

\* the files of the cache directory with the extension toml, in path order
TomlFiles(dir) == SelectSeq(dir.files, LAMBDA f : f.ext = "toml")

\* the cached value taken whenever the file has one
CacheFallbackCacheWins(arg, conf) == IF conf # None THEN conf ELSE arg

\* prelude.rs:375-409 if args.x.is_none() { args.x = cache_args.x }
CacheFallback(arg, conf) == IF arg = None THEN conf ELSE arg

\* prelude.rs:326-412 merge_args_and_cache; err is "panic" where the code
\* unwraps a None
MergeArgsAndCache(a, dir) ==
    IF a.from = None /\ ~a.from_last THEN Ok(a)
    ELSE IF a.from_last /\ ~dir.exists THEN Err("Io", a)
    ELSE IF a.from_last /\ TomlFiles(dir) = <<>> THEN Err("panic", a)
    ELSE LET id == IF a.from_last
                   THEN TomlFiles(dir)[Len(TomlFiles(dir))].id
                   ELSE a.from[1]
             file == SelectSeq(TomlFiles(dir), LAMBDA f : f.id = id)
         IN  IF ~dir.exists \/ file = <<>> THEN Err("CacheNotFound", a)
             ELSE IF ~file[1].valid THEN Err("Toml", a)
             ELSE Ok([a EXCEPT
                        !.from = Some(id),
                        !.conversation = file[1].args.conversation,
                        !.opts = [f \in OptFields |->
                                    IF f \in CacheFields
                                    THEN CacheFallback(a.opts[f],
                                                       file[1].args.opts[f])
                                    ELSE a.opts[f]]])

\* enum Api and the run function main calls for each variant
Apis == {"OpenAi", "Anthropic", "Google", "Mistral", "MistralFim"}

RunFunction ==
    [api \in Apis |->
        CASE api = "OpenAi" -> "openai::run"
          [] api = "Anthropic" -> "anthropic::run"
          [] api = "Google" -> "google::run"
          [] api = "Mistral" -> "mistral::run"
          [] api = "MistralFim" -> "mistral_fim::run"]

\* ------------------------------------------------------------------------
\* Specifications
\* ------------------------------------------------------------------------
Prompt == <<[role |-> "User", content |-> <<"q">>]>>

InitTransport ==
    /\ backend \in Backends
    /\ reply = <<>>
    /\ complete = FALSE
    /\ tstate = "start"
    /\ pos = 0
    /\ delay = ReconnectOptions(backend).delay
    /\ slept = <<>>
    /\ nComments = 0
    /\ delivered = <<>>

\* handle_stream called with the stream, up to its first poll
Init ==
    /\ InitTransport
    /\ pc = "loop"
    /\ result = "pending"
    /\ error = ""
    /\ polled = [tag |-> "", err |-> ""]
    /\ is_terminal \in BOOLEAN
    /\ quiet \in {None, Some(TRUE), Some(FALSE)}
    /\ no_cache \in BOOLEAN
    /\ spStarted = SpinnerStarts(quiet, is_terminal)
    /\ sp = IF SpinnerStarts(quiet, is_terminal) THEN "Some" ELSE "None"
    /\ spStops = 0
    /\ accumulated_content_bytes = <<>>
    /\ previous_output = <<>>
    /\ stdout = <<>>
    /\ wroteText = FALSE
    /\ highlightRuns = 0
    /\ conversation = Prompt
    /\ cacheWritten = FALSE
    /\ args = DefaultArgs
    /\ config = DefaultConfig
    /\ merged = NotMerged
    /\ InitMainIdle
    /\ InitJsonIdle

Next == RecvText \/ RecvTextRenderErr \/ RecvNone \/ RecvEof \/ RecvErr

Spec == Init /\ [][Next]_vars

\* the delta stream polled by a caller of the library
InitStream ==
    /\ InitTransport
    /\ pc = "caller"
    /\ result = "pending"
    /\ error = ""
    /\ polled = [tag |-> "", err |-> ""]
    /\ is_terminal = FALSE
    /\ quiet = Some(TRUE)
    /\ no_cache = TRUE
    /\ spStarted = FALSE
    /\ sp = "None"
    /\ spStops = 0
    /\ accumulated_content_bytes = <<>>
    /\ previous_output = <<>>
    /\ stdout = <<>>
    /\ wroteText = FALSE
    /\ highlightRuns = 0
    /\ conversation = Prompt
    /\ cacheWritten = FALSE
    /\ args = DefaultArgs
    /\ config = DefaultConfig
    /\ merged = NotMerged
    /\ InitMainIdle
    /\ InitJsonIdle

NextStream == CallerItem \/ CallerErr \/ CallerEnd

SpecStream == InitStream /\ [][NextStream]_vars

\* ------------------------------------------------------------------------
\* An adapter's map_ok closure applied to one transport item
\* ------------------------------------------------------------------------
ItemKinds == {"Connected", "Comment", "Event"}

\* the event data that arrives is reply[1]
InitExtract ==
    /\ backend \in Backends
    /\ reply \in {<<d>> : d \in Wire(backend)}
    /\ complete = TRUE
    /\ tstate = "connected"
    /\ pos = 0
    /\ delay = ReconnectOptions(backend).delay
    /\ slept = <<>>
    /\ nComments = 0
    /\ delivered = <<>>
    /\ pc = "extract"
    /\ result = "pending"
    /\ error = ""
    /\ polled = [tag |-> "", err |-> ""]
    /\ is_terminal = FALSE
    /\ quiet = Some(TRUE)
    /\ no_cache = TRUE
    /\ spStarted = FALSE
    /\ sp = "None"
    /\ spStops = 0
    /\ accumulated_content_bytes = <<>>
    /\ previous_output = <<>>
    /\ stdout = <<>>
    /\ wroteText = FALSE
    /\ highlightRuns = 0
    /\ conversation = Prompt
    /\ cacheWritten = FALSE
    /\ args = DefaultArgs
    /\ config = DefaultConfig
    /\ merged = NotMerged
    /\ InitMainIdle
    /\ InitJsonIdle

\* the closure maps an item of some kind to the String the stream yields
Extract ==
    /\ pc = "extract"
    /\ \E kind \in ItemKinds :
         delivered' =
            <<[text |-> Delta(backend, kind,
                              IF kind = "Event" THEN reply[1] ELSE NoData),
               kind |-> kind,
               src |-> IF kind = "Event" THEN 1 ELSE 0]>>
    /\ pc' = "extracted"
    /\ UNCHANGED mergeVars
    /\ UNCHANGED mainVars
    /\ UNCHANGED jsonVars
    /\ UNCHANGED <<backend, result, error, polled, is_terminal, quiet,
                   no_cache, spStarted, conversation, cacheWritten>>
    /\ UNCHANGED transportVars
    /\ UNCHANGED streamVars

NextExtract == Extract

SpecExtract == InitExtract /\ [][NextExtract]_vars

\* ------------------------------------------------------------------------
\* merge_args_and_config called once
\* ------------------------------------------------------------------------
\* every other option set
HalfFields ==
    {"api", "max_tokens", "api_env", "api_key", "quiet", "theme", "top_p"}
ConfigHalfFields ==
    {"api", "max_tokens", "env", "key", "quiet", "theme", "top_p"}

AllOpts(fields, v) == [f \in fields |-> v]
HalfOpts(fields, half, v, w) == [f \in fields |-> IF f \in half THEN v ELSE w]

ArgOpts ==
    {AllOpts(OptFields, None), AllOpts(OptFields, Some("a")),
     HalfOpts(OptFields, HalfFields, Some("a"), None),
     HalfOpts(OptFields, HalfFields, None, Some("a")),
     HalfOpts(OptFields, {"theme"}, None, Some("a"))}
ConfigOpts ==
    {AllOpts(ConfigFields, None), AllOpts(ConfigFields, Some("c")),
     HalfOpts(ConfigFields, ConfigHalfFields, Some("c"), None),
     HalfOpts(ConfigFields, ConfigHalfFields, None, Some("c"))}

InputMessages == {Message("System", <<"c">>), Message("User", <<"u">>)}
InputConversations ==
    UNION {[1..n -> InputMessages] : n \in 0..MaxConversation}

InputVars ==
    {None, Some(JNull), Some(JObj(NoMembers)),
     Some(JObj([NoMembers EXCEPT !["name"] = JLeafStr(<<"v">>)])),
     Some(JObj([NoMembers EXCEPT !["prompt"] = JLeafNull]))}

\* the templates named t1 of a configuration
Templates ==
    [name : {"t1"},
     system : {None, Some(<<"T", "{{prompt}}">>)},
     template : {None, Some(<<"{{prompt}}", "!">>), Some(<<"{{name}}">>)},
     conversation :
        {None, Some(<<Message("System", <<"s">>)>>),
         Some(<<Message("User", <<"{{stdin}}">>), Message("System", <<"s">>)>>)},
     default_vars :
        {None, Some(JObj([NoMembers EXCEPT !["name"] = JLeafStr(<<"d">>)]))}]

\* the option fields of a Preset that parse_args reads
PresetFields ==
    {"top_p", "top_k", "temperature", "max_tokens", "version", "env", "key",
     "base_url", "model"}

\* the presets named p1 of a configuration
Presets ==
    [name : {"p1"},
     api : {"Google"},
     system : {None, Some(<<"P">>)},
     opts : {AllOpts(PresetFields, None), AllOpts(PresetFields, Some("p"))}]

ArgsInputs ==
    {a \in [opts : ArgOpts,
            system : {None, Some(<<"S">>)},
            template : {None, Some("t1"), Some("t2")},
            vars : InputVars,
            prompt : {None, Some(<<"p">>)},
            stdin : {None, Some(<<"i">>)},
            suffix : {None},
            conversation : InputConversations,
            preset : {None, Some("p1")},
            from : {None},
            from_last : {FALSE},
            show : {FALSE},
            dry_run : {FALSE}] :
        /\ a.template # Some("t1") => a.vars = None
        /\ a.template = Some("t1")
             => a.opts \in {AllOpts(OptFields, None), AllOpts(OptFields, Some("a"))}}

ConfigInputs(a) ==
    [opts : IF a.template = Some("t1")
            THEN {AllOpts(ConfigFields, None), AllOpts(ConfigFields, Some("c"))}
            ELSE ConfigOpts,
     system : {None, Some(<<"C">>)},
     templates :
        CASE a.template = Some("t1") -> {Some(<<t>>) : t \in Templates}
          [] a.template = Some("t2") ->
               {None, Some(<<[name |-> "t1", system |-> None, template |-> None,
                              conversation |-> None, default_vars |-> None]>>)}
          [] OTHER -> {None},
     presets : IF a.preset = None THEN {None}
               ELSE {Some(<<p>>) : p \in {q \in Presets :
                                             /\ q.opts["model"] # None
                                             /\ q.system # None}}]

InitMerge ==
    /\ args \in ArgsInputs
    /\ config \in ConfigInputs(args)
    /\ merged = NotMerged
    /\ InitMainIdle
    /\ InitJsonIdle
    /\ pc = "merge"
    /\ backend = "anthropic"
    /\ reply = <<>>
    /\ complete = FALSE
    /\ tstate = "start"
    /\ pos = 0
    /\ delay = ReconnectOptions(backend).delay
    /\ slept = <<>>
    /\ nComments = 0
    /\ delivered = <<>>
    /\ result = "pending"
    /\ error = ""
    /\ polled = [tag |-> "", err |-> ""]
    /\ is_terminal = FALSE
    /\ quiet = Some(TRUE)
    /\ no_cache = TRUE
    /\ spStarted = FALSE
    /\ sp = "None"
    /\ spStops = 0
    /\ accumulated_content_bytes = <<>>
    /\ previous_output = <<>>
    /\ stdout = <<>>
    /\ wroteText = FALSE
    /\ highlightRuns = 0
    /\ conversation = Prompt
    /\ cacheWritten = FALSE

\* merge_args_and_config(args, config)
MergeStep ==
    /\ pc = "merge"
    /\ merged' = MergeArgsAndConfig(args, config)
    /\ pc' = "merged"
    /\ UNCHANGED <<args, config, backend, delivered, result, error, polled,
                   is_terminal, quiet, no_cache, spStarted, conversation,
                   cacheWritten>>
    /\ UNCHANGED mainVars
    /\ UNCHANGED jsonVars
    /\ UNCHANGED transportVars
    /\ UNCHANGED streamVars

NextMerge == MergeStep

SpecMerge == InitMerge /\ [][NextMerge]_vars

\* ------------------------------------------------------------------------
\* main: parse_args, merge_args_and_cache, merge_args_and_config, dispatch
\* ------------------------------------------------------------------------
\* what a cache file holds
CachedConversation ==
    <<Message("System", <<"k">>), Message("User", <<"q">>),
      Message("Assistant", <<"r">>)>>
CacheFile(id, ext, valid, opts) ==
    [id |-> id, ext |-> ext, valid |-> valid,
     args |-> [conversation |-> CachedConversation, opts |-> opts]]
CachedOpts == [AllOpts(OptFields, Some("k")) EXCEPT !["api"] = Some("Mistral")]

\* cache directories: missing, empty, and with files in path order
CacheDirs ==
    {[exists |-> FALSE, files |-> <<>>],
     [exists |-> TRUE, files |-> <<>>],
     [exists |-> TRUE,
      files |-> <<CacheFile("k0", "txt", TRUE, CachedOpts),
                  CacheFile("k1", "toml", TRUE, CachedOpts)>>],
     [exists |-> TRUE,
      files |-> <<CacheFile("k1", "toml", TRUE, AllOpts(OptFields, None)),
                  CacheFile("k2", "toml", FALSE, CachedOpts)>>]}

\* standard inputs: a terminal, piped texts, a read that fails
Stdins ==
    {StdinTerminal,
     [tty |-> FALSE, ok |-> FALSE, text |-> <<>>]}
    \cup [tty : {FALSE}, ok : {TRUE},
          text : {<<>>, <<"i">>, <<" ", "i", "\n">>, <<"i", "\n", "j", "\n">>}]

MainArgs ==
    {a \in [opts : {AllOpts(OptFields, None),
                    [AllOpts(OptFields, Some("a"))
                        EXCEPT !["api"] = Some("OpenAi")],
                    HalfOpts(OptFields, HalfFields \cup {"model"},
                             None, Some("a"))},
            system : {None, Some(<<"S">>)},
            template : {None, Some("t1")},
            vars : {None},
            prompt : {None, Some(<<"p">>)},
            stdin : {None},
            suffix : {None},
            conversation : {cv \in InputConversations : Len(cv) <= 1},
            preset : {None, Some("p1"), Some("p2")},
            from : {None, Some("k1"), Some("k9")},
            from_last : BOOLEAN,
            show : BOOLEAN,
            dry_run : BOOLEAN] :
        /\ a.from_last => a.from = None
        /\ a.show => ~a.dry_run}

MainConfigs(a) ==
    [opts : {AllOpts(ConfigFields, None),
             [AllOpts(ConfigFields, Some("c"))
                 EXCEPT !["api"] = Some("Anthropic")]},
     system : {None, Some(<<"C">>)},
     templates :
        IF a.template = None THEN {None}
        ELSE {Some(<<[name |-> "t1", system |-> Some(<<"T">>),
                      template |-> Some(<<"{{prompt}}", "!">>),
                      conversation |-> None, default_vars |-> None]>>)},
     presets :
        IF a.preset = None THEN {None}
        ELSE {Some(<<p>>) : p \in {q \in Presets : q.system # None
                                                   \/ q.opts["model"] = None}}]

MainStdins(a) ==
    IF a.preset = None /\ a.template = None /\ a.from = None /\ ~a.from_last
    THEN Stdins
    ELSE {StdinTerminal, [tty |-> FALSE, ok |-> TRUE, text |-> <<"i">>]}

MainCacheDirs(a) ==
    IF a.from = None /\ ~a.from_last
    THEN {[exists |-> TRUE, files |-> <<>>]}
    ELSE CacheDirs

InitMain ==
    /\ args \in MainArgs
    /\ config \in MainConfigs(args)
    /\ piped \in MainStdins(args)
    /\ cacheDir \in MainCacheDirs(args)
    /\ parsed = NotMerged
    /\ cached = NotMerged
    /\ merged = NotMerged
    /\ started = <<>>
    /\ mainResult = "pending"
    /\ InitJsonIdle
    /\ pc = "main"
    /\ backend = "anthropic"
    /\ reply = <<>>
    /\ complete = FALSE
    /\ tstate = "start"
    /\ pos = 0
    /\ delay = ReconnectOptions(backend).delay
    /\ slept = <<>>
    /\ nComments = 0
    /\ delivered = <<>>
    /\ result = "pending"
    /\ error = ""
    /\ polled = [tag |-> "", err |-> ""]
    /\ is_terminal = FALSE
    /\ quiet = Some(TRUE)
    /\ no_cache = TRUE
    /\ spStarted = FALSE
    /\ sp = "None"
    /\ spStops = 0
    /\ accumulated_content_bytes = <<>>
    /\ previous_output = <<>>
    /\ stdout = <<>>
    /\ wroteText = FALSE
    /\ highlightRuns = 0
    /\ conversation = Prompt
    /\ cacheWritten = FALSE

\* what no step of main changes
MainFrame ==
    /\ UNCHANGED <<args, config, piped, cacheDir, backend, delivered, result,
                   error, polled, is_terminal, quiet, no_cache, spStarted,
                   conversation, cacheWritten>>
    /\ UNCHANGED transportVars
    /\ UNCHANGED streamVars
    /\ UNCHANGED jsonVars

\* main.rs:63 parse_args(args, config)?
MainParseArgs ==
    /\ pc = "main"
    /\ parsed' = ParseArgs(args, config, piped)
    /\ pc' = IF parsed'.ok THEN "parsed" ELSE "exit"
    /\ mainResult' = IF parsed'.ok THEN mainResult ELSE "Err"
    /\ UNCHANGED <<cached, merged, started>>
    /\ MainFrame

\* main.rs:67-87 merge_args_and_cache(args)?, then show and return under
\* args.show
MainMergeCache ==
    /\ pc = "parsed"
    /\ cached' = MergeArgsAndCache(parsed.args, cacheDir)
    /\ pc' = IF cached'.ok /\ ~cached'.args.show THEN "cached" ELSE "exit"
    /\ mainResult' = IF ~cached'.ok THEN "Err"
                     ELSE IF cached'.args.show THEN "Show" ELSE mainResult
    /\ UNCHANGED <<parsed, merged, started>>
    /\ MainFrame

\* main.rs:89 merge_args_and_config(args, config)?
MainMergeConfig ==
    /\ pc = "cached"
    /\ merged' = MergeArgsAndConfig(cached.args, config)
    /\ pc' = IF merged'.ok THEN "dispatch" ELSE "exit"
    /\ mainResult' = IF merged'.ok THEN mainResult ELSE "Err"
    /\ UNCHANGED <<parsed, cached, started>>
    /\ MainFrame

\* a dry run that goes on to the backend
DryRunReturnsNever(a) == FALSE

\* main.rs:99-101 if args.dry_run { return Ok(()) }
DryRunReturns(a) == a.dry_run

\* main.rs:99-110 the return under dry_run, else the run function of the
\* api, or ApiNotSpecified
MainDispatch ==
    /\ pc = "dispatch"
    /\ LET a == merged.args
       IN  IF DryRunReturns(a)
           THEN mainResult' = "Ok" /\ started' = started
           ELSE IF a.opts["api"] = None
                THEN mainResult' = "ApiNotSpecified" /\ started' = started
                ELSE /\ started' = Append(started, RunFunction[a.opts["api"][1]])
                     /\ mainResult' = "Run"
    /\ pc' = "exit"
    /\ UNCHANGED <<parsed, cached, merged>>
    /\ MainFrame

NextMain == MainParseArgs \/ MainMergeCache \/ MainMergeConfig \/ MainDispatch

SpecMain == InitMain /\ [][NextMain]_vars

\* ------------------------------------------------------------------------
\* merge called on its own
\* ------------------------------------------------------------------------
\* the Values merge is called with: null, a string, and the objects over
\* two keys whose members are absent, null, strings, or objects whose own
\* members are absent, null or a string
InputValues ==
    LET keys == {"prompt", "name"}
        leaves == {Absent, JLeafNull, JLeafStr(<<"x">>), JLeafStr(<<"y">>)}
        object(f) ==
            JObj([k \in JsonKeys |-> IF k \in keys THEN f[k] ELSE Absent])
        inner == {object(f) :
                    f \in [keys -> {Absent, JLeafNull, JLeafStr(<<"x">>)}]}
    IN  {JNull, JStr(<<"x">>)}
        \cup {object(f) : f \in [keys -> leaves \cup inner]}

InitJson ==
    /\ value_a \in InputValues
    /\ value_b \in InputValues
    /\ value_in = value_a
    /\ pc = "merge_call"
    /\ args = DefaultArgs
    /\ config = DefaultConfig
    /\ merged = NotMerged
    /\ InitMainIdle
    /\ backend = "anthropic"
    /\ reply = <<>>
    /\ complete = FALSE
    /\ tstate = "start"
    /\ pos = 0
    /\ delay = ReconnectOptions(backend).delay
    /\ slept = <<>>
    /\ nComments = 0
    /\ delivered = <<>>
    /\ result = "pending"
    /\ error = ""
    /\ polled = [tag |-> "", err |-> ""]
    /\ is_terminal = FALSE
    /\ quiet = Some(TRUE)
    /\ no_cache = TRUE
    /\ spStarted = FALSE
    /\ sp = "None"
    /\ spStops = 0
    /\ accumulated_content_bytes = <<>>
    /\ previous_output = <<>>
    /\ stdout = <<>>
    /\ wroteText = FALSE
    /\ highlightRuns = 0
    /\ conversation = Prompt
    /\ cacheWritten = FALSE

\* prelude.rs:137-154 merge(&mut a, b)
MergeCall ==
    /\ pc = "merge_call"
    /\ value_a' = Merge(value_a, value_b)
    /\ pc' = "merge_returned"
    /\ UNCHANGED <<value_b, value_in>>
    /\ UNCHANGED mergeVars
    /\ UNCHANGED mainVars
    /\ UNCHANGED <<backend, delivered, result, error, polled, is_terminal,
                   quiet, no_cache, spStarted, conversation, cacheWritten>>
    /\ UNCHANGED transportVars
    /\ UNCHANGED streamVars

NextJson == MergeCall

SpecJson == InitJson /\ [][NextJson]_vars

\* ------------------------------------------------------------------------
\* Properties
\* ------------------------------------------------------------------------
\* the texts of the fragments yielded so far, in order
Texts == [i \in 1..Len(delivered) |-> delivered[i].text]

\* the texts of the fragments that came from events, in order
EventTexts ==
    LET ev == SelectSeq(delivered, LAMBDA f : f.kind = "Event")
    IN  [i \in 1..Len(ev) |-> ev[i].text]

InHandleStream == pc \in {"loop", "returned"}

\* handle_stream has returned the highlighter's error
RenderFailed == error = "Render"

\* C1: on a stdout that is not a terminal, the bytes handle_stream has
\* written are exactly the bytes of the fragments received so far,
\* concatenated in stream order: nothing added, nothing dropped.
C1_PassThrough ==
    (InHandleStream /\ ~is_terminal) => stdout = AsBytes(Concat(Texts))

C1_Witness ==
    /\ InHandleStream /\ ~is_terminal /\ spStarted
    /\ Len(delivered) >= 3
    /\ Cardinality({i \in 1..Len(delivered) : delivered[i].text # <<>>}) >= 2
    /\ \E i \in 1..Len(delivered) : delivered[i].text = <<>>
    /\ stdout # <<>>

\* C2: on a terminal, after every fragment the accumulated bytes are the
\* bytes of all fragments received so far and previous_output is the
\* highlighter's output over the whole of them.
C2_InteractiveFinalState ==
    (InHandleStream /\ is_terminal /\ ~RenderFailed) =>
        /\ accumulated_content_bytes = AsBytes(Concat(Texts))
        /\ previous_output = Highlight(AsBytes(Concat(Texts)))

C2_Witness ==
    /\ InHandleStream /\ is_terminal
    /\ Cardinality({i \in 1..Len(delivered) : delivered[i].text # <<>>}) >= 2
    /\ Len(Lines(previous_output)) >= 2
    /\ previous_output[1] = StyleCode

C4_EmptyFragmentNoEffect ==
    [][(/\ pc = "loop"
        /\ Len(delivered') = Len(delivered) + 1
        /\ delivered'[Len(delivered')].text = <<>>)
       => UNCHANGED <<sp, spStops, highlightRuns, stdout,
                      accumulated_content_bytes, previous_output>>]_vars

\* C5: over any interleaving of events and disconnects, no event the server
\* generated is delivered twice by the delta stream.
C5_NoDuplicateFragments ==
    \A i, j \in 1..Len(delivered) :
        (i < j /\ delivered[i].kind = "Event" /\ delivered[j].kind = "Event")
            => delivered[i].src # delivered[j].src

\* the events received so far came over one connection, one fragment each
OneConnection ==
    /\ slept = <<>>
    /\ Len(EventTexts) = pos

\* C6: in every backend an event whose data fails to decode yields an empty
\* fragment in its position and does not end the stream or fail it; the
\* chunks A, undecodable, B yield A, "", B and the printed text is AB.
C6_DecoderRobust ==
    InHandleStream =>
        /\ \A i \in 1..Len(delivered) :
               (delivered[i].kind = "Event"
                /\ ~Decodes(backend, reply[delivered[i].src]))
                   => delivered[i].text = <<>>
        /\ OneConnection
        /\ \A i \in 1..Len(delivered) :
               delivered[i].kind = "Event" =>
                   Cardinality({j \in 1..i : delivered[j].kind = "Event"})
                       = delivered[i].src
        /\ (/\ delivered # <<>>
            /\ delivered[Len(delivered)].kind = "Event"
            /\ ~Decodes(backend, reply[delivered[Len(delivered)].src])
            /\ tstate = "connected"
            /\ ~RenderFailed)
               => (pc = "loop" /\ result = "pending")
        /\ (/\ backend = "mistral"
            /\ reply = <<Chunk(TextA), ChunkNoContent, Chunk(TextB)>>
            /\ pos = 3)
               => /\ EventTexts = <<TextA, <<>>, TextB>>
                  /\ ~is_terminal => stdout = <<"A", "B">>

C6_Witness ==
    /\ backend = "mistral"
    /\ reply = <<Chunk(TextA), ChunkNoContent, Chunk(TextB)>>
    /\ pos = 3
    /\ result = "Ok"
    /\ ~is_terminal
    /\ stdout = <<"A", "B">>

AnthropicScenario ==
    /\ InHandleStream
    /\ backend = "anthropic"
    /\ reply = <<ContentBlockDelta(Hello), ContentBlockDelta(World), MessageStop>>
    /\ pos = 3
    /\ nComments = 0

HelloWorld == <<"H", "e", "l", "l", "o", " ", "w", "o", "r", "l", "d">>

\* C7 as stated: for ContentBlockDelta Hello, ContentBlockDelta " world",
\* MessageStop the stream yields exactly the fragments Hello and " world"
\* and MessageStop ends it; the non-interactive output is Hello world.
C7_Original ==
    AnthropicScenario =>
        /\ Texts = <<Hello, World>>
        /\ pc = "returned"
        /\ ~is_terminal => stdout = HelloWorld

\* C7 amended: the stream yields an empty fragment for the Connected item,
\* Hello, " world" and an empty fragment for MessageStop; MessageStop does
\* not end the stream, which goes on until the transport ends it; the
\* non-interactive output is exactly Hello world.
C7_AnthropicScenario ==
    AnthropicScenario =>
        /\ Texts = <<<<>>, Hello, World, <<>>>>
        /\ (tstate = "connected" /\ ~RenderFailed) => pc = "loop"
        /\ ~is_terminal => stdout = HelloWorld

C7_Witness ==
    /\ AnthropicScenario
    /\ ~is_terminal
    /\ result = "Ok"
    /\ stdout = HelloWorld

OllamaScenario ==
    /\ InHandleStream
    /\ backend = "ollama"
    /\ reply = <<OllamaChunk(Hi, FALSE), OllamaDone>>
    /\ pos = 2
    /\ nComments = 0

C9_Backoff ==
    /\ \A b \in Backends :
           /\ ReconnectOptions(b).reconnect
           /\ ~ReconnectOptions(b).retry_initial
    /\ \A k \in 1..Len(slept) : slept[k] = Min(2 ^ (k - 1), 60)
    /\ (pc = "caller" /\ tstate # "start" /\ delivered = <<>>)
           => (tstate = "closed" /\ slept = <<>>)

C9_Witness ==
    /\ pc = "caller"
    /\ Len(slept) >= 8
    /\ SubSeq(slept, 1, 8) = <<1, 2, 4, 8, 16, 32, 60, 60>>

\* C10: when the stream has completed and caching is enabled, the assistant
\* message appended to the conversation is the trimmed text of all the
\* fragments received, on a terminal and off it.
C10_ReplyCached ==
    (result = "Ok" /\ ~no_cache) =>
        conversation =
            Append(Prompt, [role |-> "Assistant", content |-> Trim(Concat(Texts))])

\* t occurs in s as a run of consecutive elements
Contains(s, t) ==
    \E i \in 0..(Len(s) - Len(t)) : SubSeq(s, i + 1, i + Len(t)) = t

AfterCacheStep ==
    IF no_cache
    THEN conversation = Prompt /\ ~cacheWritten
    ELSE /\ cacheWritten
         /\ conversation =
              Append(Prompt,
                     [role |-> "Assistant",
                      content |-> Trim(FromUtf8Lossy(accumulated_content_bytes))])

C13_InitialFailureFatal ==
    /\ \A b \in Backends : ~ReconnectOptions(b).retry_initial
    /\ (InHandleStream /\ polled = [tag |-> "Err", err |-> "Connect"])
         => /\ slept = <<>>
            /\ tstate = "closed"
            /\ pc = "returned"
            /\ result = "Err"
            /\ error = "Connect"
            /\ delivered = <<>>
            /\ ~wroteText
            /\ ~cacheWritten

C13_Witness ==
    /\ polled = [tag |-> "Err", err |-> "Connect"]
    /\ result = "Err"
    /\ is_terminal
    /\ spStops = 1

\* C14: once the stream has yielded its end (or Eof), handle_stream never
\* polls it again and writes nothing more: no step changes the transport,
\* the items received, stdout or the conversation, although a further poll
\* of the stream would yield its end again.
C14_TerminationIdempotent ==
    [][(polled.tag = "End" \/ polled = [tag |-> "Err", err |-> "Eof"])
          => UNCHANGED <<polled, transportVars, delivered, stdout, wroteText,
                         conversation, cacheWritten, pc, result>>]_vars

C14_Witness ==
    /\ polled.tag = "End"
    /\ tstate = "closed"
    /\ [tag |-> "End", err |-> ""] \in {Polled(o) : o \in TransportPoll}
    /\ pc = "returned"
    /\ wroteText

\* the Anthropic event types that carry no reply text
AnthropicOtherTypes ==
    {"message_start", "message_delta", "message_stop", "ping",
     "content_block_start", "content_block_stop", "error"}

\* C15: an adapter yields non-empty text only for its content-delta variant:
\* for Anthropic an event of type content_block_delta that carries
\* delta.text, for Mistral the content of the first choice, for Ollama the
\* content of the message; every other Anthropic event type and the
\* Connected and Comment items yield the empty String.
C15_DeltaExtraction ==
    pc = "extracted" =>
       LET f == delivered[1]
           d == reply[1]
       IN  /\ f.text # <<>> =>
                /\ f.kind = "Event"
                /\ Decodes(backend, d)
                /\ CASE backend = "anthropic" ->
                          /\ d.type = "content_block_delta"
                          /\ d.delta # None
                          /\ d.delta[1].text = Some(f.text)
                     [] backend = "mistral" ->
                          /\ d.choices # <<>>
                          /\ d.choices[1].content = Some(f.text)
                     [] backend = "ollama" ->
                          d.message = Some([content |-> f.text])
           /\ (backend = "anthropic"
                /\ (f.kind # "Event" \/ d.type \in AnthropicOtherTypes))
                => f.text = <<>>
           /\ (backend = "anthropic" /\ f.kind = "Event" /\ d.wf
                /\ d.type = "content_block_delta" /\ d.delta # None
                /\ d.delta[1].text # None)
                => f.text = d.delta[1].text[1]

C15_Witness ==
    /\ pc = "extracted"
    /\ backend = "anthropic"
    /\ delivered[1].kind = "Event"
    /\ reply[1] = [wf |-> TRUE, type |-> "message_delta",
                   delta |-> Some([text |-> Some(Hello)])]
    /\ delivered[1].text = <<>>

\* C16: a disconnect after the first handshake is never made final by a limit
\* on attempts: after any number of disconnects the transport waits to
\* reconnect, its next poll sleeps a delay of at most 60s and sends the
\* request again.
C16_IndefiniteRetry ==
    pc = "caller" =>
       /\ (polled.tag = "Err" /\ polled.err # "Connect") => tstate = "waiting"
       /\ (tstate = "waiting" /\ Len(slept) < MaxAttempts)
            => /\ delay <= 60
               /\ \E o \in TransportPoll :
                     /\ o.tag = "Item"
                     /\ o.item = Connected
                     /\ o.tstate = "connected"
                     /\ o.slept = Append(slept, delay)
       /\ \A i \in 1..Len(slept) : slept[i] <= 60

C16_Witness ==
    /\ pc = "caller"
    /\ tstate = "waiting"
    /\ polled = [tag |-> "Err", err |-> "HttpStream"]
    /\ Len(slept) = 7
    /\ slept[7] = 60
    /\ \E i \in 1..Len(delivered) : delivered[i].text # <<>>

\* C17: when the highlighter fails while a fragment is rendered,
\* handle_stream returns that error, and a spinner that was started has
\* been stopped and cleared by then.
C17_RenderFailure ==
    (InHandleStream /\ RenderFailed)
       => /\ pc = "returned"
          /\ result = "Err"
          /\ polled.tag = "Item"
          /\ sp = "None"
          /\ spStarted => (spStops = 1 /\ Contains(stdout, ClearSpinner))
          /\ ~cacheWritten

C17_Witness ==
    /\ RenderFailed
    /\ result = "Err"
    /\ spStarted
    /\ spStops = 1
    /\ Len(delivered) = 1

\* the System messages of a conversation, by index
SystemAt(conv) == {i \in 1..Len(conv) : conv[i].role = "System"}

\* merge_args_and_config has returned Ok
MergedOk == pc = "merged" /\ merged.ok

\* a system prompt is supplied: by the system argument, by the selected
\* template, or at the head of the input conversation
SystemSupplied ==
    \/ args.system # None
    \/ (args.template # None
        /\ \E i \in 1..Len(UnwrapOrDefault(config.templates)) :
              /\ config.templates[1][i].name = args.template[1]
              /\ config.templates[1][i].system # None)
    \/ (args.conversation # <<>> /\ args.conversation[1].role = "System")

\* the resulting conversation has one System message, the first one; it
\* holds the system argument when there is one, else the template's system
\* prompt when one was rendered
OneLeadingSystem ==
    LET conv == merged.args.conversation
    IN  /\ SystemAt(conv) = {1}
        /\ args.system # None => merged.args.system = args.system
        /\ merged.args.system # None => conv[1].content = merged.args.system[1]
        /\ (merged.args.system = None /\ args.conversation # <<>>
            /\ args.conversation[1].role = "System")
             => conv[1] = args.conversation[1]

\* C18 as stated: whenever a system prompt is supplied the resulting
\* conversation contains exactly one System message, at index 0.
C18_Original ==
    (MergedOk /\ SystemSupplied) => OneLeadingSystem

\* C18 amended: whenever a system prompt is supplied and the input
\* conversation has no System message after its first message, the
\* resulting conversation contains exactly one System message, at index 0;
\* a system argument replaces the content of a leading System message and a
\* template's system prompt is not duplicated.
C18_SingleSystemMessage ==
    (MergedOk /\ SystemSupplied /\ SystemAt(args.conversation) \subseteq {1})
       => OneLeadingSystem

C18_Witness ==
    /\ MergedOk
    /\ args.system = None
    /\ args.template = Some("t1")
    /\ config.templates[1][1].system # None
    /\ config.templates[1][1].conversation # None
    /\ args.conversation = <<Message("System", <<"c">>), Message("User", <<"u">>)>>
    /\ args.prompt = Some(<<"p">>)
    /\ SystemAt(merged.args.conversation) = {1}
    /\ merged.args.conversation[1].content = <<"T", "p">>

\* the options the arguments are said to override
ListedFields == OptFields \ {"theme"}

AllListedSet ==
    /\ \A f \in ListedFields : args.opts[f] # None
    /\ args.system # None

\* an option set in args keeps its value
ArgsKept ==
    /\ \A f \in ListedFields :
          args.opts[f] # None => merged.args.opts[f] = args.opts[f]
    /\ args.system # None => merged.args.system = args.system

\* the result is args with the conversation [System(system), User(prompt)]
OnlyConversationDiffers ==
    merged.args =
       [args EXCEPT !.conversation =
           <<Message("System", args.system[1]),
             Message("User", UnwrapOrDefault(args.prompt))>>]

\* C19 as stated: an option set in args keeps its value whatever the
\* configuration, and the result differs from args only in the
\* conversation, which becomes [System(args.system), User(prompt)].
C19_Original ==
    MergedOk => (ArgsKept /\ (AllListedSet => OnlyConversationDiffers))

\* C19 amended: an option set in args keeps its value whatever the
\* configuration; when all of them are set, no template is selected, there
\* is no stdin, the input conversation is empty and the configuration has
\* no theme for an unset theme argument, the result differs from args only
\* in the conversation, which becomes [System(args.system), User(prompt)].
C19_ArgsOverride ==
    MergedOk =>
       /\ ArgsKept
       /\ (/\ AllListedSet
           /\ args.template = None
           /\ args.stdin = None
           /\ args.conversation = <<>>
           /\ (args.opts["theme"] # None \/ config.opts["theme"] = None))
            => OnlyConversationDiffers

C19_Witness ==
    /\ MergedOk
    /\ AllListedSet
    /\ args.opts["theme"] = None
    /\ args.template = None
    /\ args.stdin = None
    /\ args.conversation = <<>>
    /\ args.prompt = Some(<<"p">>)
    /\ config.opts = HalfOpts(ConfigFields, ConfigHalfFields, None, Some("c"))
    /\ config.system = Some(<<"C">>)
    /\ merged.args.conversation =
          <<Message("System", <<"S">>), Message("User", <<"p">>)>>
    /\ merged.args.opts = args.opts

\* C20: for default Args and a default Config the result equals the
\* arguments except for the conversation, which is the default message
\* (role User, empty content) alone, no System message added.
C20_DefaultsUnchanged ==
    (MergedOk /\ args = DefaultArgs /\ config = DefaultConfig)
       => merged.args = [args EXCEPT !.conversation = <<DefaultMessage>>]

\* ------------------------------------------------------------------------
\* main
\* ------------------------------------------------------------------------
MainExited == pc = "exit"
\* main went past merge_args_and_config
Dispatched == MainExited /\ merged.ok

\* C26: main starts at most one backend run function; having got to the
\* dispatch it starts none under dry_run, none and returns ApiNotSpecified
\* when no api is set, and otherwise exactly the run function of args.api;
\* before the dispatch none is started.
C26_OneBackend ==
    /\ Len(started) <= 1
    /\ ~Dispatched => started = <<>>
    /\ Dispatched =>
         LET a == merged.args
         IN  IF a.dry_run THEN started = <<>> /\ mainResult = "Ok"
             ELSE IF a.opts["api"] = None
                  THEN started = <<>> /\ mainResult = "ApiNotSpecified"
                  ELSE /\ a.opts["api"][1] \in Apis
                       /\ started = <<RunFunction[a.opts["api"][1]]>>
                       /\ mainResult = "Run"

\* a dry run with an api set has ended with no backend started
C26_Witness ==
    /\ Dispatched
    /\ merged.args.dry_run
    /\ merged.args.opts["api"] = Some("Anthropic")
    /\ started = <<>>

\* merge_args_and_cache has been called and has returned
CacheMerged == parsed.ok /\ cached # NotMerged
\* the cache file named id
CacheFileOf(id) ==
    CHOOSE f \in {cacheDir.files[i] : i \in 1..Len(cacheDir.files)} :
        f.ext = "toml" /\ f.id = id

\* C30: merge_args_and_cache returns args as they are when neither from nor
\* from_last is set; otherwise, when it returns args, their conversation is
\* the cached one and each of the twelve options is the one of args when
\* that is set, and the cached one only when it is not.
C30_CacheMerge ==
    CacheMerged =>
        LET a == parsed.args
        IN  /\ (a.from = None /\ ~a.from_last) => cached = Ok(a)
            /\ (~(a.from = None /\ ~a.from_last) /\ cached.ok) =>
                 LET file == CacheFileOf(cached.args.from[1])
                 IN  /\ cached.args.conversation = file.args.conversation
                     /\ \A f \in {"api", "model", "api_version", "api_env",
                                  "api_key", "temperature", "max_tokens",
                                  "quiet", "language", "theme", "top_p",
                                  "top_k"} :
                          cached.args.opts[f] =
                              IF a.opts[f] # None THEN a.opts[f]
                              ELSE file.args.opts[f]

\* the last conversation is continued with a language given and no api: the
\* language is kept, the api is the cached one, the conversation is replaced
C30_Witness ==
    /\ CacheMerged
    /\ cached.ok
    /\ parsed.args.from_last
    /\ parsed.args.conversation # CachedConversation
    /\ cached.args.conversation = CachedConversation
    /\ parsed.args.opts["language"] = Some("a")
    /\ cached.args.opts["language"] = Some("a")
    /\ parsed.args.opts["api"] = None
    /\ cached.args.opts["api"] = Some("Mistral")

\* an Option<String> that is None or the empty String
Empty(opt) == opt = None \/ opt = Some(<<>>)
\* r is t without the whitespace at its two ends
TrimmedOf(r, t) ==
    /\ r # <<>> => (r[1] \notin Whitespace /\ r[Len(r)] \notin Whitespace)
    /\ \E i \in 0..Len(t) : \E j \in i..Len(t) :
          /\ r = SubSeq(t, i + 1, j)
          /\ \A k \in (1..i) \cup ((j + 1)..Len(t)) : t[k] \in Whitespace

\* C23 as stated: the four call shapes of parse_args give an empty prompt
\* and stdin; the piped text as prompt and an empty stdin; the argument as
\* prompt and an empty stdin; the argument as prompt and the piped text as
\* stdin.
C23_Original ==
    parsed.ok =>
        LET r == parsed.args
        IN  /\ (args.prompt = None /\ piped.tty) =>
                 Empty(r.prompt) /\ Empty(r.stdin)
            /\ (args.prompt = None /\ ~piped.tty) =>
                 r.prompt = Some(piped.text) /\ Empty(r.stdin)
            /\ (args.prompt # None /\ piped.tty) =>
                 r.prompt = args.prompt /\ Empty(r.stdin)
            /\ (args.prompt # None /\ ~piped.tty) =>
                 r.prompt = args.prompt /\ r.stdin = Some(piped.text)

\* C23: the same four call shapes with the piped text taken without the
\* whitespace at its two ends: prompt "" and no stdin; the trimmed piped
\* text as prompt and no stdin; the argument as prompt and stdin ""; the
\* argument as prompt and the trimmed piped text as stdin.
C23_PromptAndStdin ==
    parsed.ok =>
        LET r == parsed.args
        IN  /\ (args.prompt = None /\ piped.tty) =>
                 r.prompt = Some(<<>>) /\ r.stdin = None
            /\ (args.prompt = None /\ ~piped.tty) =>
                 /\ r.prompt # None
                 /\ TrimmedOf(r.prompt[1], piped.text)
                 /\ r.stdin = None
            /\ (args.prompt # None /\ piped.tty) =>
                 r.prompt = args.prompt /\ r.stdin = Some(<<>>)
            /\ (args.prompt # None /\ ~piped.tty) =>
                 /\ r.prompt = args.prompt
                 /\ r.stdin # None
                 /\ TrimmedOf(r.stdin[1], piped.text)

\* " i\n" is piped and no argument is given: the prompt is "i"
C23_Witness ==
    /\ parsed.ok
    /\ args.prompt = None
    /\ ~piped.tty
    /\ piped.text = <<" ", "i", "\n">>
    /\ parsed.args.prompt = Some(<<"i">>)
    /\ parsed.args.stdin = None

\* the presets and templates of the configuration that args select
SelectedPreset ==
    IF args.preset = None THEN <<>>
    ELSE SelectSeq(UnwrapOrDefault(config.presets),
                   LAMBDA p : p.name = args.preset[1])
SelectedTemplate ==
    IF args.template = None THEN <<>>
    ELSE SelectSeq(UnwrapOrDefault(config.templates),
                   LAMBDA t : t.name = args.template[1])
PresetHasSystem == SelectedPreset # <<>> /\ SelectedPreset[1].system # None
TemplateHasSystem == SelectedTemplate # <<>> /\ SelectedTemplate[1].system # None
\* main has called merge_args_and_config and it returned args
MainMerged == pc \in {"dispatch", "exit"} /\ merged.ok

\* C21: with a system argument and a selected preset or template that has a
\* system prompt, the first message of the conversation returned by
\* merge_args_and_config is the System message of the argument, and no
\* message has the preset's or the template's system prompt as its content.
C21_SystemArgOverrides ==
    (MainMerged /\ args.system # None /\ (PresetHasSystem \/ TemplateHasSystem)) =>
        LET conv == merged.args.conversation
        IN  /\ Len(conv) > 0
            /\ conv[1] = Message("System", args.system[1])
            /\ PresetHasSystem =>
                 \A i \in 1..Len(conv) :
                     conv[i].content # SelectedPreset[1].system[1]
            /\ TemplateHasSystem =>
                 \A i \in 1..Len(conv) :
                     conv[i].content # SelectedTemplate[1].system[1]

\* parse_args put the preset's system prompt in front, and the merged
\* conversation starts with the argument's instead
C21_Witness ==
    /\ MainMerged
    /\ args.system = Some(<<"S">>)
    /\ PresetHasSystem
    /\ TemplateHasSystem
    /\ parsed.args.conversation[1] = Message("System", <<"P">>)
    /\ merged.args.conversation[1] = Message("System", <<"S">>)

\* C22: without a system argument, a selected preset with a system prompt
\* and a configuration with another give merge_args_and_config a first
\* message with the preset's text; a selected template and a selected preset
\* that both have one give it the template's text.
C22_SystemPrecedence ==
    (MergedOk /\ args.system = None /\ PresetHasSystem) =>
        LET conv == merged.args.conversation
        IN  /\ (config.system # None /\ ~TemplateHasSystem) =>
                 conv[1] = Message("System", SelectedPreset[1].system[1])
            /\ TemplateHasSystem =>
                 /\ conv[1].role = "System"
                 /\ conv[1].content =
                      <<"T">> \o UnwrapOrDefault(args.prompt)

\* ------------------------------------------------------------------------
\* the rendering on a terminal
\* ------------------------------------------------------------------------
\* a fragment is rendered in this step
Renders == is_terminal /\ highlightRuns' = highlightRuns + 1
\* what a step has written to stdout, the clearing of the spinner apart
WrittenIs(bytes) ==
    \/ stdout' = stdout \o bytes
    \/ stdout' = stdout \o ClearSpinner \o bytes
\* the number of lines of previous_output that are skipped
Settled ==
    IF Len(Lines(previous_output)) = 0 THEN 0
    ELSE Len(Lines(previous_output)) - 1

\* C24: in each step that renders a fragment on a terminal, the number of
\* lines skipped from the new rendering is the number of lines of
\* previous_output less one, 0 when it has none, never negative, and what
\* is written after the move to column 0 is the other lines of the new
\* rendering joined by newlines.
C24_SettledLines ==
    [][Renders =>
         /\ Settled >= 0
         /\ Len(Lines(previous_output)) > 0 =>
              Settled = Len(Lines(previous_output)) - 1
         /\ LET new == Lines(previous_output')
                rest == [i \in 1..(IF Len(new) > Settled
                                   THEN Len(new) - Settled ELSE 0) |->
                            new[Settled + i]]
            IN  WrittenIs(CursorColumn0 \o AsBytes(JoinNewline(rest)))]_vars

\* three fragments have been rendered and the rendering has two lines or more
C24_Witness ==
    /\ is_terminal
    /\ highlightRuns >= 3
    /\ Len(Lines(previous_output)) >= 2
    /\ ~RenderFailed

\* the row of the terminal the cursor is on, the first being 1: only a
\* newline moves it
CursorRow == 1 + Cardinality({i \in 1..Len(stdout) : stdout[i] = "\n"})

\* C25: in each step that renders a fragment on a terminal, the cursor is on
\* the row of the last line of the previous rendering (the first row when
\* there is none), and the step moves it to column 0 and writes the lines of
\* the new rendering from that row on; so the rows above it, the settled
\* lines, are never written again.
C25_OnlyUnprinted ==
    [][Renders =>
         LET new == Lines(previous_output')
             row == CursorRow
         IN  /\ row = IF Len(Lines(previous_output)) = 0 THEN 1
                      ELSE Len(Lines(previous_output))
             /\ WrittenIs(<<"CSI[1G">>
                          \o AsBytes(JoinNewline(SubSeq(new, row, Len(new)))))
             /\ CursorRow' = IF Len(new) = 0 THEN 1 ELSE Len(new)]_vars

\* the cursor has moved down to the second row or further and a fragment
\* was rendered after that
C25_Witness ==
    /\ is_terminal
    /\ highlightRuns >= 2
    /\ CursorRow >= 2
    /\ Len(Lines(Highlight(SubSeq(accumulated_content_bytes, 1,
                                  Len(accumulated_content_bytes) - 1)))) >= 2

\* C28: when the stream yields an error other than its clean end,
\* handle_stream returns that error, and whenever it has returned an error
\* of the stream the conversation is the one it was called with (no
\* assistant message) and no cache file has been written.
C28_ErrorLeavesState ==
    InHandleStream =>
        /\ (polled.tag = "Err" /\ polled.err # "Eof") =>
              /\ pc = "returned"
              /\ result = "Err"
              /\ error = polled.err
        /\ (result = "Err" /\ ~RenderFailed) =>
              /\ conversation = Prompt
              /\ ~cacheWritten

\* caching is on, text was received, then the stream failed: nothing cached
C28_Witness ==
    /\ InHandleStream
    /\ result = "Err"
    /\ ~RenderFailed
    /\ ~no_cache
    /\ \E i \in 1..Len(delivered) : delivered[i].text # <<>>
    /\ conversation = Prompt
    /\ ~cacheWritten

\* ------------------------------------------------------------------------
\* the delta stream
\* ------------------------------------------------------------------------
\* the text of the reply the server generated
ReplyText ==
    Concat([i \in 1..Len(reply) |-> Delta(backend, "Event", reply[i])])
\* the stream has just ended
StreamEnded == polled.tag = "End" \/ polled = [tag |-> "Err", err |-> "Eof"]

\* a poll of the delta stream adds exactly one fragment, of the item the
\* transport yielded, after the ones before, when the transport yields an
\* item, and none when it yields an error or ends
OneFragmentPerItem ==
    IF polled'.tag = "Item"
    THEN /\ Len(delivered') = Len(delivered) + 1
         /\ SubSeq(delivered', 1, Len(delivered)) = delivered
         /\ delivered'[Len(delivered')].kind \in ItemKinds
    ELSE /\ delivered' = delivered
         /\ polled'.tag = "Err" => polled'.err # ""

\* C27: the delta stream of each backend yields one fragment per transport
\* item, in order, and passes an error through in its position without
\* adding, dropping or changing a fragment; and when the stream ends the
\* fragments concatenated in order are the text of the reply.
C27_OneToOne ==
    /\ [][OneFragmentPerItem]_vars
    /\ [](StreamEnded => Concat(Texts) = ReplyText)

\* ------------------------------------------------------------------------
\* merge
\* ------------------------------------------------------------------------
\* what merging y into x gives when they are members of merged objects and
\* y is neither absent nor null: x is taken as null when absent; two objects
\* give x without the keys that are null in y, with the other keys of y put
\* in or replaced, and with its other keys as they are; an object x stays
\* when y is not an object; any other x becomes y
MemberMerged(r, x, y) ==
    IF x.t = "obj"
    THEN IF y.t = "obj"
         THEN /\ r.t = "obj"
              /\ \A j \in JsonKeys :
                   /\ y.o[j].t = "null" => r.o[j].t = "absent"
                   /\ y.o[j].t = "absent" => r.o[j] = x.o[j]
                   /\ y.o[j].t \notin {"null", "absent"} => r.o[j] = y.o[j]
         ELSE r = x
    ELSE r = y

\* C29: after merge(a, b): when both are objects, every key that is null in
\* b is absent from a, every other key of b is merged into a in the same
\* way (put in when a has no such key), and the keys of a that b does not
\* have are as they were; an a that is an object is unchanged by a b that is
\* not; an a that is not an object has become b.
C29_Merge ==
    pc = "merge_returned" =>
        IF value_in.t = "obj"
        THEN IF value_b.t = "obj"
             THEN /\ value_a.t = "obj"
                  /\ \A k \in JsonKeys :
                       /\ value_b.o[k].t = "null" => value_a.o[k].t = "absent"
                       /\ value_b.o[k].t = "absent" =>
                            value_a.o[k] = value_in.o[k]
                       /\ value_b.o[k].t \notin {"null", "absent"} =>
                            /\ value_in.o[k].t = "absent" =>
                                 value_a.o[k] = value_b.o[k]
                            /\ value_in.o[k].t # "absent" =>
                                 MemberMerged(value_a.o[k], value_in.o[k],
                                              value_b.o[k])
             ELSE value_a = value_in
        ELSE value_a = value_b

\* two objects with an object under the same key were merged: a null member
\* of b's took the member out of a's, and a key only a has is kept
C29_Witness ==
    /\ pc = "merge_returned"
    /\ value_in.t = "obj"
    /\ value_b.t = "obj"
    /\ value_in.o["prompt"].t = "obj"
    /\ value_b.o["prompt"].t = "obj"
    /\ value_in.o["prompt"].o["name"].t = "str"
    /\ value_b.o["prompt"].o["name"].t = "null"
    /\ value_a.o["prompt"].o["name"].t = "absent"
    /\ value_b.o["name"].t = "absent"
    /\ value_in.o["name"].t = "str"
    /\ value_a.o["name"] = value_in.o["name"]

====
